---- MODULE Spec2Model ----
(***************************************************************************)
(* Model of the Automatic Visual Context chat client: the App component's  *)
(* state (message log, input, loading flag, conversation history, staged   *)
(* files), the asynchronous handleSend pipeline, the inference adapter     *)
(* sendMessageToGemini, the GenerativeForm component and the               *)
(* DictationButton component.                                              *)
(*                                                                         *)
(* Representation                                                          *)
(*   - a JavaScript string is a sequence of string tokens; trim() removes  *)
(*     leading and trailing whitespace tokens;                             *)
(*   - an optional value is a sequence: <<>> is undefined, <<x>> is x;     *)
(*   - Date.now() is the variable clock; a message id is the number whose  *)
(*     decimal string the code stores, and the seed id 'init' is 0, which  *)
(*     no clock value equals.                                              *)
(***************************************************************************)
EXTENDS Integers, Sequences, FiniteSets, TLC

VARIABLES messages, input, isLoading, loadingStep, aiHistory, stagedFiles,
          sends, started, clock, lastError, form, dictation

\* The App component and its pipeline.
appVars == <<messages, input, isLoading, loadingStep, aiHistory, stagedFiles,
             sends, started, clock, lastError>>

vars == <<messages, input, isLoading, loadingStep, aiHistory, stagedFiles,
          sends, started, clock, lastError, form, dictation>>

----------------------------------------------------------------------------
(* Bounds *)

MaxSends == 2
MaxStaged == 1
MaxClock == 2
MaxExtra == 1
MaxSessions == 2
MaxFields == 40
MaxNotes == 1

----------------------------------------------------------------------------
(* Optional values and strings *)

None == <<>>
Some(x) == <<x>>

WS == {" ", "\n"}

RECURSIVE TrimStart(_)
TrimStart(s) ==
  IF s # <<>> /\ Head(s) \in WS THEN TrimStart(Tail(s)) ELSE s

RECURSIVE TrimEnd(_)
TrimEnd(s) ==
  IF s # <<>> /\ s[Len(s)] \in WS THEN TrimEnd(SubSeq(s, 1, Len(s) - 1)) ELSE s

Trim(s) == TrimEnd(TrimStart(s))

StartsWith(s, p) == Len(s) >= Len(p) /\ SubSeq(s, 1, Len(p)) = p

Last(s) == s[Len(s)]

RECURSIVE Flatten(_)
Flatten(ss) == IF ss = <<>> THEN <<>> ELSE Head(ss) \o Flatten(Tail(ss))

----------------------------------------------------------------------------
(* Files and the media encoder *)

FileA == [name |-> "a.png", type |-> "image/png", bytes |-> "QUJD"]
FileB == [name |-> "b.pdf", type |-> "application/pdf", bytes |-> "REVG"]

Files == {FileA, FileB}

\* reader.readAsDataURL(file): "data:<type>;base64,<payload>", kept as the
\* list of its comma-separated parts.
readAsDataURL(f) == << <<"data:", f.type, ";base64">>, <<f.bytes>> >>

\* result.split(',')[1]
fileToBase64(f) == readAsDataURL(f)[2]

processFile(f) == [mimeType |-> f.type, data |-> fileToBase64(f)]

----------------------------------------------------------------------------
(* Messages *)

SeedId == 0
SeedText == <<"What's your goal? Describe what you're working on or a problem you're facing, and I'll help you give me the right context for better AI answers.">>
FallbackText == <<"I ran into a small issue. Could you try re-stating your goal?">>

Message(id, role, content, uiFields, analysis, final_output, formData, groundingLinks, attachments) ==
  [id |-> id, role |-> role, content |-> content, uiFields |-> uiFields,
   analysis |-> analysis, final_output |-> final_output,
   formData |-> formData, groundingLinks |-> groundingLinks,
   attachments |-> attachments]

SeedMessage ==
  Message(SeedId, "ai", Some(SeedText), None, None, None, None, None, None)

FallbackMessage(now) ==
  Message(now, "ai", Some(FallbackText), None, None, None, None, None, None)

----------------------------------------------------------------------------
(* Replies of the inference service *)

\* A UIField of types.ts.
Field(id, type, required) == [id |-> id, type |-> type, required |-> required]

FieldGoal == Field("goal", "text", TRUE)
FieldDoc == Field("doc", "file", FALSE)
FieldOne == Field("1", "file", TRUE)

\* A parsed JSON value: an object with the keys of AIResponse, each optional,
\* or the JSON literal null.
JsonObject(status, message, fields, analysis, final_output) ==
  [kind |-> "object", status |-> status, message |-> message,
   fields |-> fields, analysis |-> analysis, final_output |-> final_output,
   grounding_links |-> None]

JsonNull ==
  [kind |-> "null", status |-> None, message |-> None, fields |-> None,
   analysis |-> None, final_output |-> None, grounding_links |-> None]

ReplyCollecting ==
  JsonObject(Some("COLLECTING"), Some(<<"Tell me more">>),
             Some(<<FieldGoal, FieldDoc>>), Some(<<"draft">>), Some(<<"stub">>))
ReplyComplete ==
  JsonObject(Some("COMPLETE"), Some(<<"Done">>), Some(<<FieldGoal>>),
             Some(<<"because">>), None)
ReplyUnknownStatus ==
  JsonObject(Some("PENDING"), Some(<<"Hold on">>), Some(<<FieldGoal>>),
             Some(<<"because">>), Some(<<"answer">>))
ReplyNoStatus ==
  JsonObject(None, Some(<<"Hi">>), None, None, Some(<<"answer">>))

\* A reply that asks for two files; the id of the second descriptor is
\* integer-like.
ReplyForm ==
  JsonObject(Some("COLLECTING"), Some(<<"Tell me more">>),
             Some(<<FieldDoc, FieldOne>>), None, None)

\* A reply that asks for one file and n - 1 texts, with the ids "1", ..., "n".
ReplyFormOf(n) ==
  JsonObject(Some("COLLECTING"), Some(<<"Tell me more">>),
             Some([k \in 1..n |->
                     Field(ToString(k), IF k = 1 THEN "file" ELSE "text",
                           FALSE)]),
             None, None)

\* A reply whose JSON carries a grounding_links list of its own.
ReplyWithLinks ==
  [JsonObject(Some("COMPLETE"), Some(<<"Done">>), None, None,
              Some(<<"answer">>))
     EXCEPT !.grounding_links = Some(<<[uri |-> "m", title |-> "M"]>>)]
ReplyWithNoLinks ==
  [JsonObject(Some("COMPLETE"), Some(<<"Done">>), None, None,
              Some(<<"answer">>))
     EXCEPT !.grounding_links = Some(<<>>)]

\* The reply text is a sequence of lexical tokens: a code fence ```, the
\* language tag json, whitespace, a complete JSON value, or other text.
Tok(t) == [t |-> t, v |-> JsonNull]
Fence == Tok("fence")
Lang == Tok("lang")
Space == Tok("ws")
Junk == Tok("junk")
Value(v) == [t |-> "value", v |-> v]

RECURSIVE TrimTokStart(_)
TrimTokStart(s) ==
  IF s # <<>> /\ Head(s) = Space THEN TrimTokStart(Tail(s)) ELSE s

RECURSIVE TrimTokEnd(_)
TrimTokEnd(s) ==
  IF s # <<>> /\ s[Len(s)] = Space
  THEN TrimTokEnd(SubSeq(s, 1, Len(s) - 1)) ELSE s

TrimTok(s) == TrimTokEnd(TrimTokStart(s))

\* cleaned.replace(/```$/, '')
StripTrailingFence(s) ==
  IF s # <<>> /\ s[Len(s)] = Fence THEN SubSeq(s, 1, Len(s) - 1) ELSE s

cleanJsonOutput(text) ==
  LET cleaned == TrimTok(text) IN
  IF StartsWith(cleaned, <<Fence, Lang>>)
  THEN TrimTok(StripTrailingFence(SubSeq(cleaned, 3, Len(cleaned))))
  ELSE IF StartsWith(cleaned, <<Fence>>)
  THEN TrimTok(StripTrailingFence(SubSeq(cleaned, 2, Len(cleaned))))
  ELSE TrimTok(cleaned)

\* JSON.parse: succeeds exactly when the text is one JSON value, possibly
\* surrounded by whitespace.
JsonParses(text) ==
  LET t == TrimTok(text) IN Len(t) = 1 /\ t[1].t = "value"

JsonParse(text) == TrimTok(text)[1].v

\* The outcome of ai.models.generateContent.
Rejected ==
  [kind |-> "reject", text |-> <<>>, groundingChunks |-> None,
   urlMetadata |-> None]
Resolved(text, chunks, urls) ==
  [kind |-> "resolve", text |-> text, groundingChunks |-> chunks,
   urlMetadata |-> urls]

WebChunk(uri, title) == [web |-> Some([uri |-> uri, title |-> title])]
OtherChunk == [web |-> None]

Responses ==
  {Rejected,
   Resolved(<<>>, None, None),
   Resolved(<<Junk>>, None, None),
   Resolved(<<Value(ReplyComplete), Fence>>, None, None),
   Resolved(<<Fence, Lang, Junk, Fence>>, None, None),
   Resolved(<<Value(JsonNull)>>, None, None),
   Resolved(<<Fence, Lang, Space, Value(ReplyCollecting), Space, Fence>>,
            None, None),
   Resolved(<<Space, Fence, Value(ReplyComplete), Fence>>,
            Some(<<WebChunk("a", None), OtherChunk, WebChunk("b", Some("B"))>>),
            Some(<<"c">>)),
   Resolved(<<Value(ReplyUnknownStatus)>>, None, None),
   Resolved(<<Value(ReplyNoStatus)>>, None, None)}

\* Replies with grounding metadata.
LinkResponses ==
  {Rejected,
   Resolved(<<Value(ReplyComplete)>>,
            Some(<<WebChunk("a", None), WebChunk("b", None)>>),
            Some(<<"c">>)),
   Resolved(<<Value(ReplyCollecting)>>,
            Some(<<WebChunk("a", Some("")), OtherChunk,
                   WebChunk("a", Some("A"))>>),
            Some(<<"a">>)),
   Resolved(<<Value(ReplyComplete)>>, Some(<<OtherChunk>>),
            Some(<<"c", "d">>)),
   Resolved(<<Value(ReplyWithLinks)>>,
            Some(<<WebChunk("a", None), WebChunk("b", None)>>),
            Some(<<"c">>)),
   Resolved(<<Value(ReplyWithNoLinks)>>,
            Some(<<WebChunk("b", Some("B"))>>), None)}

----------------------------------------------------------------------------
(* The inference adapter: sendMessageToGemini *)

FlashModel == <<"gemini-3-", "flash", "-preview">>
ProModel == <<"gemini-3-", "pro", "-preview">>

TextPart(t) == [text |-> Some(t), inlineData |-> None]
MediaPart(f) == [text |-> None, inlineData |-> Some(f)]

Turn(role, parts) == [role |-> role, parts |-> parts]

\* A text is cut into tokens so that a scheme name, the separator "://" and
\* whitespace are each a token of their own.
\* Faulty variant, kept for comparison: the pattern asks nothing of what
\* follows the separator.
HasUrlBareScheme(text) ==
  \E k \in 1..(Len(text) - 1) :
    text[k] \in {"http", "https"} /\ text[k + 1] = "://"

\* /(https?:\/\/[^\s]+)/ tested on the input text
HasUrl(text) ==
  \E k \in 1..(Len(text) - 2) :
    /\ text[k] \in {"http", "https"}
    /\ text[k + 1] = "://"
    /\ text[k + 2] \notin WS

\* The part of sendMessageToGemini before the call: the request handed to
\* ai.models.generateContent.
BuildRequest(history, newInput, modelName) ==
  LET currentParts ==
        (IF newInput.text # <<>> THEN <<TextPart(newInput.text)>> ELSE <<>>)
        \o [k \in 1..Len(newInput.files) |->
              MediaPart([mimeType |-> newInput.files[k].mimeType,
                         data |-> newInput.files[k].data])]
      hasUrl == newInput.text # <<>> /\ HasUrl(newInput.text)
  IN [model |-> modelName,
      contents |-> history \o <<Turn("user", currentParts)>>,
      tools |-> <<"googleSearch">>
                \o (IF hasUrl THEN <<"urlContext">> ELSE <<>>),
      thinkingLevel |-> IF \E k \in 1..Len(modelName) : modelName[k] = "flash"
                        THEN "MEDIUM" ELSE "HIGH"]

Link(uri, title) == [uri |-> uri, title |-> title]

\* Faulty variant, kept for comparison: a citation without a title gets an
\* empty title.
SearchLinksUntitled(response) ==
  IF response.groundingChunks = None THEN <<>>
  ELSE LET web == SelectSeq(response.groundingChunks[1],
                            LAMBDA c : c.web # None)
       IN [k \in 1..Len(web) |->
             Link(web[k].web[1].uri,
                  IF web[k].web[1].title # None THEN web[k].web[1].title[1]
                  ELSE "")]

\* Links extracted from groundingMetadata.groundingChunks; a title that is
\* absent or the empty string is replaced by the default.
SearchLinks(response) ==
  IF response.groundingChunks = None THEN <<>>
  ELSE LET web == SelectSeq(response.groundingChunks[1],
                            LAMBDA c : c.web # None)
       IN [k \in 1..Len(web) |->
             Link(web[k].web[1].uri,
                  IF web[k].web[1].title # None /\ web[k].web[1].title[1] # ""
                  THEN web[k].web[1].title[1]
                  ELSE "External Source")]

\* Links extracted from urlContextMetadata.urlMetadata
UrlLinks(response) ==
  IF response.urlMetadata = None THEN <<>>
  ELSE [k \in 1..Len(response.urlMetadata[1]) |->
          Link(response.urlMetadata[1][k], "Retrieved Page Context")]

\* Faulty variant, kept for comparison: text that does not parse is taken as an empty reply object.
ParseResponseLenient(response) ==
  LET failure(error) == [ok |-> FALSE, value |-> JsonNull, error |-> error] IN
  IF response.kind = "reject" THEN failure("network")
  ELSE IF response.text = <<>>
  THEN failure("Null response from inference engine.")
  ELSE IF ~JsonParses(cleanJsonOutput(response.text))
  THEN [ok |-> TRUE, error |-> "none",
        value |-> [JsonObject(None, None, None, None, None)
                     EXCEPT !.grounding_links = Some(<<>>)]]
  ELSE LET jsonResponse == JsonParse(cleanJsonOutput(response.text)) IN
       IF jsonResponse.kind = "null" THEN failure("TypeError")
       ELSE LET base == IF jsonResponse.grounding_links = None THEN <<>>
                        ELSE jsonResponse.grounding_links[1]
            IN [ok |-> TRUE, error |-> "none",
                value |-> [jsonResponse EXCEPT !.grounding_links =
                    Some(base \o SearchLinks(response) \o UrlLinks(response))]]

\* The part of sendMessageToGemini after the call: ok = FALSE when it throws,
\* otherwise value is the AIResponse it returns.
ParseResponse(response) ==
  LET failure(error) == [ok |-> FALSE, value |-> JsonNull, error |-> error] IN
  IF response.kind = "reject" THEN failure("network")
  ELSE IF response.text = <<>>
  THEN failure("Null response from inference engine.")
  ELSE IF ~JsonParses(cleanJsonOutput(response.text))
  THEN failure("Model failed to adhere to the requested response schema.")
  ELSE LET jsonResponse == JsonParse(cleanJsonOutput(response.text)) IN
       IF jsonResponse.kind = "null" THEN failure("TypeError")
       ELSE LET base == IF jsonResponse.grounding_links = None THEN <<>>
                        ELSE jsonResponse.grounding_links[1]
            IN [ok |-> TRUE, error |-> "none",
                value |-> [jsonResponse EXCEPT !.grounding_links =
                    Some(base \o SearchLinks(response) \o UrlLinks(response))]]

\* JSON.stringify(aiResponse): keys whose value is undefined are omitted.
Stringify(r) ==
  LET key(name, opt, Render(_)) ==
        IF opt = None THEN <<>> ELSE <<name>> \o Render(opt[1])
  IN <<"{">>
     \o key("status", r.status, LAMBDA v : <<v>>)
     \o key("message", r.message, LAMBDA v : v)
     \o key("fields", r.fields,
            LAMBDA v : Flatten([k \in 1..Len(v) |-> <<v[k].id, v[k].type>>]))
     \o key("analysis", r.analysis, LAMBDA v : v)
     \o key("final_output", r.final_output, LAMBDA v : v)
     \o key("grounding_links", r.grounding_links,
            LAMBDA v : Flatten([k \in 1..Len(v) |-> <<v[k].uri, v[k].title>>]))
     \o <<"}">>

----------------------------------------------------------------------------
(* The state of the GenerativeForm and DictationButton components *)

\* A JavaScript value held in formData: a string or null.
Str(s) == [null |-> FALSE, s |-> s]
JsNull == [null |-> TRUE, s |-> <<>>]

\* if (v), v && ..., filter(k => formData[k])
Truthy(v) == ~v.null /\ v.s # <<>>

\* `${v}`
TemplateText(v) == IF v.null THEN <<"null">> ELSE v.s

\* A plain object with string keys: its entries in the order JavaScript
\* enumerates own keys (Object.keys, Object.values, Object.entries, spread):
\* the integer-like keys first, in ascending numeric order, then the other
\* keys in insertion order.
Entry(key, val) == [key |-> key, val |-> val]

HasKey(obj, key) == \E k \in 1..Len(obj) : obj[k].key = key

\* The number a key is the canonical decimal form of, or -1 for a key that
\* is not integer-like.  The ids of the model's forms are below MaxFields.
KeyIndex(key) ==
  IF \E n \in 0..MaxFields : ToString(n) = key
  THEN CHOOSE n \in 0..MaxFields : ToString(n) = key
  ELSE -1

\* { ...obj, [key]: val }
Put(obj, key, val) ==
  IF HasKey(obj, key)
  THEN [k \in 1..Len(obj) |->
          IF obj[k].key = key THEN Entry(key, val) ELSE obj[k]]
  ELSE IF KeyIndex(key) < 0
  THEN Append(obj, Entry(key, val))
  ELSE LET before == Cardinality({k \in 1..Len(obj) :
                                    /\ KeyIndex(obj[k].key) >= 0
                                    /\ KeyIndex(obj[k].key) < KeyIndex(key)})
       IN SubSeq(obj, 1, before) \o <<Entry(key, val)>>
          \o SubSeq(obj, before + 1, Len(obj))

\* The useState initial values of GenerativeForm.
EmptyForm ==
  [formData |-> <<>>, fileData |-> <<>>, additionalText |-> <<>>,
   additionalFiles |-> <<>>]

\* The useState and useRef initial values of DictationButton; sessions holds
\* one record per call of startRecording.
IdleDictation ==
  [isRecording |-> FALSE, isProcessing |-> FALSE, mediaRecorderRef |-> None,
   sessions |-> <<>>]

----------------------------------------------------------------------------
(* The App component *)

DefaultLoadingStep == "Thinking..."

InputTexts == {<<>>, <<" ">>, <<"hi">>}

\* Texts with and without links.
UrlTexts ==
  {<<>>,
   <<"hi">>,
   <<"http", "://", "a.example">>,
   <<"see", " ", "https", "://", "b.example", " ", "please">>,
   <<"ftp", "://", "c.example">>,
   <<"http", "://">>,
   <<"https", "://", " ", "b.example">>}

StageableFiles == {FileA}

\* sends holds one record per invocation of handleSend that is suspended at
\* an await: pc = "encoding" at Promise.all(fileToBase64), pc = "awaiting" at
\* sendMessageToGemini.  lastError is the error most recently passed to
\* console.error by the catch block of handleSend; started counts the
\* invocations of handleSend that passed its empty-input guard.
Init ==
  /\ messages = <<SeedMessage>>
  /\ input = <<>>
  /\ isLoading = FALSE
  /\ loadingStep = DefaultLoadingStep
  /\ aiHistory = <<>>
  /\ stagedFiles = <<>>
  /\ sends = <<>>
  /\ started = 0
  /\ clock = 1
  /\ lastError = "none"
  /\ form = EmptyForm
  /\ dictation = IdleDictation

\* Date.now() advances between events.
Tick ==
  /\ clock < MaxClock
  /\ clock' = clock + 1
  /\ UNCHANGED <<messages, input, isLoading, loadingStep, aiHistory,
                 stagedFiles, sends, started, lastError>>

\* textarea onChange: setInput(e.target.value)
setInput(t) ==
  /\ t # input
  /\ input' = t
  /\ UNCHANGED <<messages, isLoading, loadingStep, aiHistory, stagedFiles,
                 sends, started, clock, lastError>>

handleGlobalDrop(newFiles) ==
  /\ Len(newFiles) > 0
  /\ Len(stagedFiles) + Len(newFiles) <= MaxStaged
  /\ stagedFiles' = stagedFiles \o newFiles
  /\ UNCHANGED <<messages, input, isLoading, loadingStep, aiHistory, sends,
                 started, clock, lastError>>

RemoveAt(s, index) ==
  [k \in 1..(Len(s) - 1) |-> IF k < index THEN s[k] ELSE s[k + 1]]

removeStagedFile(index) ==
  /\ index \in 1..Len(stagedFiles)
  /\ stagedFiles' = RemoveAt(stagedFiles, index)
  /\ UNCHANGED <<messages, input, isLoading, loadingStep, aiHistory, sends,
                 started, clock, lastError>>

\* The state of the App component held in useState hooks.
App ==
  [messages |-> messages, input |-> input, isLoading |-> isLoading,
   loadingStep |-> loadingStep, aiHistory |-> aiHistory,
   stagedFiles |-> stagedFiles]

\* Faulty variant, kept for comparison: the conversation history survives a reset.
AfterResetKeepsHistory(app) ==
  [app EXCEPT !.messages = <<SeedMessage>>,
              !.input = <<>>,
              !.isLoading = FALSE,
              !.loadingStep = DefaultLoadingStep,
              !.stagedFiles = <<>>]

\* The values resetChat sets.
AfterReset(app) ==
  [app EXCEPT !.messages = <<SeedMessage>>,
              !.input = <<>>,
              !.isLoading = FALSE,
              !.loadingStep = DefaultLoadingStep,
              !.aiHistory = <<>>,
              !.stagedFiles = <<>>]

resetChat ==
  /\ messages' = AfterReset(App).messages
  /\ input' = AfterReset(App).input
  /\ isLoading' = AfterReset(App).isLoading
  /\ loadingStep' = AfterReset(App).loadingStep
  /\ aiHistory' = AfterReset(App).aiHistory
  /\ stagedFiles' = AfterReset(App).stagedFiles
  /\ UNCHANGED <<sends, started, clock, lastError>>

----------------------------------------------------------------------------
(* handleSend *)

Invocation(text, allFiles, modelName, loadingText) ==
  [pc |-> "encoding", text |-> text, allFiles |-> allFiles,
   hist |-> aiHistory, modelName |-> modelName, loadingText |-> loadingText,
   newUserMsg |-> None, req |-> None]

\* Lines 211-235: the continuation after the files are encoded, up to the call
\* of sendMessageToGemini.
Committed(s) ==
  LET processedFiles ==
        [k \in 1..Len(s.allFiles) |-> processFile(s.allFiles[k])]
      newUserMsg ==
        Message(clock, "user", Some(s.text), None, None, None,
                IF Len(s.allFiles) > 0
                THEN Some([k \in 1..Len(s.allFiles) |-> s.allFiles[k].name])
                ELSE None,
                None, Some(processedFiles))
  IN [s EXCEPT !.pc = "awaiting",
               !.newUserMsg = Some(newUserMsg),
               !.req = Some(BuildRequest(s.hist,
                                         [text |-> s.text,
                                          files |-> processedFiles],
                                         s.modelName))]

\* k = Len(sends) + 1 for an invocation that commits without suspending.
Commit(s, k) ==
  LET c == Committed(s) IN
  /\ messages' = Append(messages, c.newUserMsg[1])
  /\ input' = <<>>
  /\ stagedFiles' = <<>>
  /\ isLoading' = TRUE
  /\ loadingStep' = s.loadingText
  /\ sends' = [j \in 1..(IF k > Len(sends) THEN k ELSE Len(sends)) |->
                 IF j = k THEN c ELSE sends[j]]
  /\ UNCHANGED <<aiHistory, clock, lastError>>

\* Faulty variant, kept for comparison: no empty-input guard.
handleSendUnguarded(text, files, modelName, loadingOverride) ==
  LET allFiles == files \o stagedFiles
      currentLoadingText == IF loadingOverride # None THEN loadingOverride[1]
                            ELSE IF Len(messages) <= 1
                                 THEN "Generating visual interface..."
                                 ELSE "Let me think about it..."
      s == Invocation(text, allFiles, modelName, currentLoadingText)
  IN /\ started < MaxSends
     /\ started' = started + 1
     /\ IF Len(allFiles) = 0
        THEN Commit(s, Len(sends) + 1)
        ELSE /\ sends' = Append(sends, s)
             /\ UNCHANGED <<messages, input, isLoading, loadingStep,
                            aiHistory, stagedFiles, clock, lastError>>

handleSend(text, files, modelName, loadingOverride) ==
  LET allFiles == files \o stagedFiles
      isFirstStep == Len(messages) <= 1
      defaultLoadingText == IF isFirstStep THEN "Generating visual interface..."
                            ELSE "Let me think about it..."
      currentLoadingText == IF loadingOverride # None THEN loadingOverride[1]
                            ELSE defaultLoadingText
      s == Invocation(text, allFiles, modelName, currentLoadingText)
  IN IF Trim(text) = <<>> /\ Len(allFiles) = 0
     THEN UNCHANGED appVars
     ELSE /\ started < MaxSends
          /\ started' = started + 1
          /\ IF Len(allFiles) = 0
             THEN Commit(s, Len(sends) + 1)
             ELSE /\ sends' = Append(sends, s)
                  /\ UNCHANGED <<messages, input, isLoading, loadingStep,
                                 aiHistory, stagedFiles, clock, lastError>>

\* Every fileToBase64 promise resolved.
encodeDone(i) ==
  /\ i \in 1..Len(sends)
  /\ sends[i].pc = "encoding"
  /\ Commit(sends[i], i)
  /\ UNCHANGED started

\* A FileReader reported an error: Promise.all rejects, outside the try block.
encodeFail(i) ==
  /\ i \in 1..Len(sends)
  /\ sends[i].pc = "encoding"
  /\ sends' = RemoveAt(sends, i)
  /\ UNCHANGED <<messages, input, isLoading, loadingStep, aiHistory,
                 stagedFiles, started, clock, lastError>>

\* Faulty variant, kept for comparison: the payload of the reply is attached whatever its status.
newAiMsgOfAnyStatus(aiResponse, now) ==
  Message(now + 1, "ai", aiResponse.message, aiResponse.fields,
          aiResponse.analysis, aiResponse.final_output,
          None, aiResponse.grounding_links, None)

\* Lines 236-260: the values handleSend builds from a returned reply.
userTurnOf(s) ==
  LET processedFiles == s.newUserMsg[1].attachments[1] IN
  Turn("user", <<TextPart(s.text)>>
               \o [k \in 1..Len(processedFiles) |->
                     MediaPart(processedFiles[k])])

modelTurnOf(aiResponse) ==
  Turn("model", <<TextPart(Stringify(aiResponse))>>)

newAiMsgOf(aiResponse, now) ==
  Message(now + 1, "ai", aiResponse.message,
          IF aiResponse.status = Some("COLLECTING")
          THEN aiResponse.fields ELSE None,
          IF aiResponse.status = Some("COMPLETE")
          THEN aiResponse.analysis ELSE None,
          IF aiResponse.status = Some("COMPLETE")
          THEN aiResponse.final_output ELSE None,
          None, aiResponse.grounding_links, None)

\* Faulty variant, kept for comparison: the user turn is committed before the call settles, so a failed
\* call leaves a half pair.
historyAfterHalfPair(history, s, result) ==
  IF result.ok
  THEN history \o <<userTurnOf(s), modelTurnOf(result.value)>>
  ELSE history \o <<userTurnOf(s)>>

\* Faulty variant, kept for comparison: the model turn is put before the user turn.
historyAfterModelFirst(history, s, result) ==
  IF result.ok
  THEN history \o <<modelTurnOf(result.value), userTurnOf(s)>>
  ELSE history

\* Lines 237-248 and the catch block: the history after the call settled.
historyAfter(history, s, result) ==
  IF result.ok
  THEN history \o <<userTurnOf(s), modelTurnOf(result.value)>>
  ELSE history

\* Faulty variant, kept for comparison: a failed call withdraws the user's message before reporting.
messagesAfterRollback(log, s, result, now) ==
  IF result.ok
  THEN Append(log, newAiMsgOf(result.value, now))
  ELSE Append(SelectSeq(log, LAMBDA m : m # s.newUserMsg[1]),
              FallbackMessage(now))

\* Lines 250-268: the message log after the call settled.
messagesAfter(log, s, result, now) ==
  IF result.ok
  THEN Append(log, newAiMsgOf(result.value, now))
  ELSE Append(log, FallbackMessage(now))

\* Faulty variant, kept for comparison: no cleanup after the call settles.
finallyBlockSkipped ==
  UNCHANGED <<isLoading, loadingStep>>

\* Lines 269-272: the finally block.
finallyBlock ==
  /\ isLoading' = FALSE
  /\ loadingStep' = DefaultLoadingStep

\* Lines 236-272: the continuation after sendMessageToGemini settles.
replyArrives(i, response) ==
  /\ i \in 1..Len(sends)
  /\ sends[i].pc = "awaiting"
  /\ LET result == ParseResponse(response) IN
     /\ aiHistory' = historyAfter(aiHistory, sends[i], result)
     /\ messages' = messagesAfter(messages, sends[i], result, clock)
     /\ lastError' = IF result.ok THEN lastError ELSE result.error
  /\ finallyBlock
  /\ sends' = RemoveAt(sends, i)
  /\ UNCHANGED <<input, stagedFiles, started, clock>>

----------------------------------------------------------------------------
(* The controls that start a send *)

\* <button type="submit" disabled=...>
submitDisabled ==
  (Trim(input) = <<>> /\ Len(stagedFiles) = 0) \/ isLoading

clickSubmit ==
  /\ ~submitDisabled
  /\ handleSend(input, <<>>, FlashModel, None)

\* textarea onKeyDown
onKeyDown(key, shiftKey) ==
  IF key = "Enter" /\ ~shiftKey
  THEN handleSend(input, <<>>, FlashModel, None)
  ELSE UNCHANGED appVars

\* Faulty variant, kept for comparison: isLast is not asked for.
RenderedFormsNotOnlyLast ==
  {k \in 1..Len(messages) :
     messages[k].role = "ai" /\ messages[k].uiFields # None}

\* messages.map: the positions of the messages rendered with a GenerativeForm
RenderedForms ==
  {k \in 1..Len(messages) :
     /\ messages[k].role = "ai"
     /\ messages[k].uiFields # None
     /\ k = Len(messages)}

\* msg.uiFields && isLast, for an assistant message
formShown ==
  LET last == messages[Len(messages)] IN
  last.role = "ai" /\ last.uiFields # None

FormData(entries, additional_text) ==
  [entries |-> entries, additional_text |-> additional_text]

FormInputs ==
  {[data |-> FormData(<<>>, <<>>), files |-> <<>>],
   [data |-> FormData(<<Entry("goal", Str(<<"trip">>))>>, <<"soon">>),
    files |-> <<FileB>>]}

\* Faulty variant, kept for comparison: the two identifiers are exchanged.
handleFormSubmitSwapped(data, files, useTurbo) ==
  LET summaryParts ==
        (IF Len(files) > 0 THEN <<<<ToString(Len(files)), " attachment(s)">>>>
         ELSE <<>>)
        \o (IF data.additional_text # <<>> THEN <<<<"additional details">>>>
            ELSE <<>>)
      joined == Flatten([k \in 1..Len(summaryParts) |->
                  IF k = 1 THEN summaryParts[k]
                  ELSE <<", ">> \o summaryParts[k]])
      summary == <<"Here is the user provided context">>
                 \o (IF Len(summaryParts) > 0
                     THEN <<" (">> \o joined \o <<")">> ELSE <<>>)
                 \o <<":">>
      dataString == Flatten([k \in 1..Len(data.entries) |->
                      (IF k = 1 THEN <<>> ELSE <<"\n">>)
                      \o <<data.entries[k].key, ": ">>
                      \o TemplateText(data.entries[k].val)])
      finalMessage ==
        summary \o <<"\n", "\n">>
        \o (IF data.additional_text # <<>>
            THEN <<"Extra info: ">> \o data.additional_text \o <<"\n">>
            ELSE <<>>)
        \o <<"\n", "Details:", "\n">> \o dataString
      model == IF useTurbo THEN FlashModel ELSE ProModel
  IN handleSend(finalMessage, files, model, Some("Thinking and Analyzing..."))

handleFormSubmit(data, files, useTurbo) ==
  LET summaryParts ==
        (IF Len(files) > 0 THEN <<<<ToString(Len(files)), " attachment(s)">>>>
         ELSE <<>>)
        \o (IF data.additional_text # <<>> THEN <<<<"additional details">>>>
            ELSE <<>>)
      joined == Flatten([k \in 1..Len(summaryParts) |->
                  IF k = 1 THEN summaryParts[k]
                  ELSE <<", ">> \o summaryParts[k]])
      summary == <<"Here is the user provided context">>
                 \o (IF Len(summaryParts) > 0
                     THEN <<" (">> \o joined \o <<")">> ELSE <<>>)
                 \o <<":">>
      dataString == Flatten([k \in 1..Len(data.entries) |->
                      (IF k = 1 THEN <<>> ELSE <<"\n">>)
                      \o <<data.entries[k].key, ": ">>
                      \o TemplateText(data.entries[k].val)])
      finalMessage ==
        summary \o <<"\n", "\n">>
        \o (IF data.additional_text # <<>>
            THEN <<"Extra info: ">> \o data.additional_text \o <<"\n">>
            ELSE <<>>)
        \o <<"\n", "Details:", "\n">> \o dataString
      model == IF useTurbo THEN ProModel ELSE FlashModel
  IN handleSend(finalMessage, files, model, Some("Thinking and Analyzing..."))

\* The fast / deep buttons of the GenerativeForm rendered for the last message
clickFormButton(in, useTurbo) ==
  /\ formShown
  /\ handleFormSubmit(in.data, in.files, useTurbo)

----------------------------------------------------------------------------

----------------------------------------------------------------------------
(* The GenerativeForm component, rendered for the last message *)

\* props.fields
fields == Last(messages).uiFields[1]

\* obj[key]; an absent key reads as undefined, which is as falsy as null.
Get(obj, key) ==
  IF HasKey(obj, key)
  THEN obj[CHOOSE k \in 1..Len(obj) : obj[k].key = key].val
  ELSE JsNull

\* Object.values(obj)
ObjectValues(obj) == [k \in 1..Len(obj) |-> obj[k].val]

handleChange(id, value, file) ==
  form' = [form EXCEPT
             !.formData = Put(form.formData, id, value),
             !.fileData = IF file # None THEN Put(form.fileData, id, file[1])
                          ELSE form.fileData]

\* DynamicField: typing into a text, textarea, select or default input
fieldInput(field, text) ==
  /\ field.type # "file"
  /\ handleChange(field.id, Str(text), None)

\* DynamicField: a file dropped on, or picked for, a file field
fieldFile(field, file) ==
  /\ field.type = "file"
  /\ handleChange(field.id, Str(<<file.name>>), Some(file))

\* DynamicField: the remove button, rendered while the field has a value
fieldRemove(field) ==
  /\ field.type = "file"
  /\ Truthy(Get(form.formData, field.id))
  /\ handleChange(field.id, JsNull, None)

setAdditionalText(text) ==
  /\ text # form.additionalText
  /\ form' = [form EXCEPT !.additionalText = text]

\* onTranscribe of the form's DictationButton; the notes grow by one
\* dictation at most MaxNotes times over a typed text.
handleDictation(text) ==
  /\ Len(form.additionalText) <= MaxNotes
  /\ form' = [form EXCEPT
                !.additionalText = IF Trim(form.additionalText) # <<>>
                                   THEN form.additionalText \o <<" ">> \o text
                                   ELSE text]

\* handleDrop and handleManualFileSelect
addAdditionalFiles(newFiles) ==
  /\ Len(newFiles) > 0
  /\ Len(form.additionalFiles) + Len(newFiles) <= MaxExtra
  /\ form' = [form EXCEPT !.additionalFiles = form.additionalFiles \o newFiles]

removeAdditionalFile(indexToRemove) ==
  /\ indexToRemove \in 1..Len(form.additionalFiles)
  /\ form' = [form EXCEPT
                !.additionalFiles = RemoveAt(form.additionalFiles,
                                             indexToRemove)]

completedCount ==
  Cardinality({k \in 1..Len(form.formData) : Truthy(form.formData[k].val)})

\* Natural numbers of any size, as sequences of digits of base 1024, least
\* significant digit first and no leading zero digit: the 53-bit significands
\* of the doubles and their products.
RECURSIVE BigOfSmall(_)
BigOfSmall(n) ==
  IF n = 0 THEN <<>> ELSE <<n % 1024>> \o BigOfSmall(n \div 1024)

RECURSIVE BigToSmall(_)
BigToSmall(x) ==
  IF x = <<>> THEN 0 ELSE x[1] + 1024 * BigToSmall(Tail(x))

RECURSIVE BigNorm(_)
BigNorm(x) ==
  IF x # <<>> /\ x[Len(x)] = 0 THEN BigNorm(SubSeq(x, 1, Len(x) - 1)) ELSE x

RECURSIVE BigMulSmall(_, _, _)
BigMulSmall(x, m, carry) ==
  IF x = <<>> THEN BigOfSmall(carry)
  ELSE <<(x[1] * m + carry) % 1024>>
       \o BigMulSmall(Tail(x), m, (x[1] * m + carry) \div 1024)

\* Quotient and remainder of the digits 1..i of x, with r carried in from the
\* digits above, by the small number d.
RECURSIVE BigDivFrom(_, _, _, _)
BigDivFrom(x, d, i, r) ==
  IF i = 0 THEN [q |-> <<>>, r |-> r]
  ELSE LET cur == r * 1024 + x[i]
           rest == BigDivFrom(x, d, i - 1, cur % d)
       IN [q |-> Append(rest.q, cur \div d), r |-> rest.r]

BigDivMod(x, d) ==
  LET res == BigDivFrom(x, d, Len(x), 0) IN [q |-> BigNorm(res.q), r |-> res.r]

RECURSIVE BigInc(_)
BigInc(x) ==
  IF x = <<>> THEN <<1>>
  ELSE IF x[1] < 1023 THEN <<x[1] + 1>> \o Tail(x)
  ELSE <<0>> \o BigInc(Tail(x))

BigIsOdd(x) == x # <<>> /\ x[1] % 2 = 1

RECURSIVE SmallBitLength(_)
SmallBitLength(n) == IF n = 0 THEN 0 ELSE 1 + SmallBitLength(n \div 2)

BigBitLength(x) ==
  IF x = <<>> THEN 0 ELSE 10 * (Len(x) - 1) + SmallBitLength(x[Len(x)])

BigShiftLeft(x, n) ==
  [k \in 1..(n \div 10) |-> 0] \o BigMulSmall(x, 2 ^ (n % 10), 0)

BigShiftRight(x, n) ==
  IF n \div 10 >= Len(x) THEN <<>>
  ELSE BigDivMod(SubSeq(x, n \div 10 + 1, Len(x)), 2 ^ (n % 10)).q

\* x rounded to nearest, ties to even, given the remainder r of the division
\* by d that produced it.
BigRoundEven(x, r, d) ==
  IF 2 * r > d \/ (2 * r = d /\ BigIsOdd(x)) THEN BigInc(x) ELSE x

\* Math.round((count / total) * 100) in IEEE 754 double arithmetic, for
\* 0 <= count and 0 < total: the quotient is rounded to 53 significant bits,
\* its product with 100 is rounded to 53 significant bits, and Math.round
\* gives floor(y + 1/2) of that double y.
MathRoundPercent(count, total) ==
  IF count = 0 THEN 0
  ELSE LET t == CHOOSE e \in 0..30 :
                  /\ count * 2 ^ e >= total
                  /\ e > 0 => count * 2 ^ (e - 1) < total
           division == BigDivMod(BigShiftLeft(BigOfSmall(count * 2 ^ t), 52),
                                 total)
           quotient == BigRoundEven(division.q, division.r, total)
           product == BigMulSmall(quotient, 100, 0)
           drop == BigBitLength(product) - 53
           cut == BigDivMod(product, 2 ^ drop)
           y == BigRoundEven(cut.q, cut.r, 2 ^ drop)
           fraction == (52 + t) - drop
       IN BigToSmall(BigShiftRight(y, fraction))
          + (IF BigIsOdd(BigShiftRight(y, fraction - 1)) THEN 1 ELSE 0)

progress == MathRoundPercent(completedCount, Len(fields))

\* Faulty variant, kept for comparison: an incomplete form is not submitted.
handleSubmitGated(useTurbo) ==
  /\ progress = 100
  /\ handleFormSubmit(FormData(form.formData, form.additionalText),
                      ObjectValues(form.fileData) \o form.additionalFiles,
                      useTurbo)

handleSubmit(useTurbo) ==
  LET dynamicFiles == ObjectValues(form.fileData)
      allFiles == dynamicFiles \o form.additionalFiles
      finalData == FormData(form.formData, form.additionalText)
  IN handleFormSubmit(finalData, allFiles, useTurbo)

\* The form's state lives as long as the form stays rendered for the same
\* message; a form rendered anew starts from the initial values.
Remount ==
  form' = IF formShown /\ formShown' /\ Len(messages') = Len(messages)
          THEN form ELSE EmptyForm

FormTexts == {<<>>, <<"trip">>}
NoteTexts == {<<>>, <<"soon">>}
FormFiles == {FileA, FileB}
ExtraFiles == {FileB}

FormResponses == {Rejected, Resolved(<<Value(ReplyForm)>>, None, None)}

AudioResponses ==
  {Rejected, Resolved(<<>>, None, None), Resolved(<<"hello">>, None, None)}

\* transcribeAudio once generateContent settled: response.text || "", or the
\* error thrown by its catch block.
transcribeAudio(response) ==
  IF response.kind = "reject"
  THEN [ok |-> FALSE, text |-> <<>>,
        error |-> "Audio processing pipeline interrupted."]
  ELSE [ok |-> TRUE, text |-> response.text, error |-> "none"]

\* What the form's own DictationButton hands to onTranscribe: the texts
\* transcribeAudio returns that are not empty.
DictatedTexts ==
  {transcribeAudio(r).text :
     r \in {a \in AudioResponses :
              transcribeAudio(a).ok /\ transcribeAudio(a).text # <<>>}}

\* The positions of the descriptors of the rendered form.
FieldIndexes == IF formShown THEN 1..Len(fields) ELSE {}

\* The conversation up to a form, and the form filled in and submitted.  The
\* form takes edits for as long as it is rendered, also while the files of a
\* submission are being read.
FormNext ==
  \/ setInput(<<"hi">>) /\ Remount /\ UNCHANGED dictation
  \/ clickSubmit /\ Remount /\ UNCHANGED dictation
  \/ \E i \in 1..Len(sends) : encodeDone(i) /\ Remount /\ UNCHANGED dictation
  \/ \E i \in 1..Len(sends), response \in FormResponses :
       replyArrives(i, response) /\ Remount /\ UNCHANGED dictation
  \/ \E k \in FieldIndexes, file \in FormFiles :
       fieldFile(fields[k], file) /\ UNCHANGED <<appVars, dictation>>
  \/ \E k \in FieldIndexes :
       fieldRemove(fields[k]) /\ UNCHANGED <<appVars, dictation>>
  \/ \E text \in NoteTexts :
       formShown /\ setAdditionalText(text) /\ UNCHANGED <<appVars, dictation>>
  \/ \E text \in DictatedTexts :
       formShown /\ handleDictation(text) /\ UNCHANGED <<appVars, dictation>>
  \/ \E file \in ExtraFiles :
       /\ formShown
       /\ addAdditionalFiles(<<file>>) /\ UNCHANGED <<appVars, dictation>>
  \/ \E k \in 1..Len(form.additionalFiles) :
       /\ formShown
       /\ removeAdditionalFile(k) /\ UNCHANGED <<appVars, dictation>>
  \/ \E useTurbo \in BOOLEAN :
       formShown /\ handleSubmit(useTurbo) /\ Remount /\ UNCHANGED dictation

FormSpec == Init /\ [][FormNext]_vars

\* The descriptors a user edits in a long form; the others are filled in, or
\* not, when the form is looked at.
EditedFields == {1, 2}

\* The conversation after "hi" was sent and answered with a form of n
\* descriptors, of which the c descriptors after the edited ones were filled
\* in, in descriptor order.
ProgressInit ==
  \E n \in 1..MaxFields :
    \E c \in 0..(IF n > 2 THEN n - 2 ELSE 0) :
      LET userMsg == Message(1, "user", Some(<<"hi">>), None, None, None,
                             None, None, Some(<<>>))
          reply == ParseResponse(Resolved(<<Value(ReplyFormOf(n))>>,
                                          None, None)).value
      IN /\ messages = <<SeedMessage, userMsg, newAiMsgOf(reply, 1)>>
         /\ input = <<>>
         /\ isLoading = FALSE
         /\ loadingStep = DefaultLoadingStep
         /\ aiHistory = <<Turn("user", <<TextPart(<<"hi">>)>>),
                          modelTurnOf(reply)>>
         /\ stagedFiles = <<>>
         /\ sends = <<>>
         /\ started = 1
         /\ clock = 1
         /\ lastError = "none"
         /\ form = [EmptyForm EXCEPT
                      !.formData = [k \in 1..c |->
                                      Entry(ToString(k + 2),
                                            Str(<<"trip">>))]]
         /\ dictation = IdleDictation

\* A form being filled in: a file is attached to, and removed from, its
\* first descriptor and a text is typed into, and cleared from, its second.
ProgressNext ==
  \/ \E k \in FieldIndexes \cap EditedFields, text \in FormTexts :
       fieldInput(fields[k], text) /\ UNCHANGED <<appVars, dictation>>
  \/ \E k \in FieldIndexes \cap EditedFields, file \in FormFiles :
       fieldFile(fields[k], file) /\ UNCHANGED <<appVars, dictation>>
  \/ \E k \in FieldIndexes \cap EditedFields :
       fieldRemove(fields[k]) /\ UNCHANGED <<appVars, dictation>>

ProgressSpec == ProgressInit /\ [][ProgressNext]_vars

----------------------------------------------------------------------------
(* The DictationButton component of the composer *)

\* A call of startRecording.  pc is the point it has reached: "acquiring"
\* (awaiting getUserMedia), "recording" (the MediaRecorder runs), "stopping"
\* (stop() was called, the stop event is pending), "reading" (the FileReader
\* reads the blob), "transcribing" (awaiting transcribeAudio), "done", or
\* "denied" (getUserMedia rejected).  stream is "none" before the stream is
\* acquired, then "live" until its tracks are stopped, then "released".
Session(pc, stream) == [pc |-> pc, stream |-> stream]

\* onTranscribe of the composer's button
handleDictationResult(text) ==
  input' = IF Trim(input) # <<>> THEN input \o <<" ">> \o text ELSE text

\* Lines 33-35: the call up to await getUserMedia.
startRecording ==
  /\ Len(dictation.sessions) < MaxSessions
  /\ dictation' = [dictation EXCEPT
                     !.sessions = Append(dictation.sessions,
                                         Session("acquiring", "none"))]
  /\ UNCHANGED input

\* Lines 36-71: getUserMedia resolved with a stream.
getUserMediaResolves(i) ==
  /\ i \in 1..Len(dictation.sessions)
  /\ dictation.sessions[i].pc = "acquiring"
  /\ dictation' = [dictation EXCEPT
                     !.mediaRecorderRef = Some(i),
                     !.sessions[i] = Session("recording", "live"),
                     !.isRecording = TRUE]
  /\ UNCHANGED input

\* Lines 72-75: getUserMedia rejected.
getUserMediaRejects(i) ==
  /\ i \in 1..Len(dictation.sessions)
  /\ dictation.sessions[i].pc = "acquiring"
  /\ dictation' = [dictation EXCEPT !.sessions[i] = Session("denied", "none")]
  /\ UNCHANGED input

\* mediaRecorderRef.current.stop() throws on a recorder that is not
\* recording, before setIsRecording(false) is reached.
stopRecording ==
  /\ IF dictation.mediaRecorderRef # None /\ dictation.isRecording
     THEN LET i == dictation.mediaRecorderRef[1] IN
          IF dictation.sessions[i].pc = "recording"
          THEN dictation' = [dictation EXCEPT
                               !.sessions[i].pc = "stopping",
                               !.isRecording = FALSE]
          ELSE UNCHANGED dictation
     ELSE UNCHANGED dictation
  /\ UNCHANGED input

\* <button disabled={isProcessing}>
buttonDisabled == dictation.isProcessing

\* onClick of the button
toggleRecording ==
  /\ ~buttonDisabled
  /\ IF dictation.isRecording THEN stopRecording ELSE startRecording

\* mediaRecorder.onstop
onstop(i) ==
  /\ i \in 1..Len(dictation.sessions)
  /\ dictation.sessions[i].pc = "stopping"
  /\ dictation' = [dictation EXCEPT
                     !.isProcessing = TRUE,
                     !.sessions[i].pc = "reading"]
  /\ UNCHANGED input

\* The finally block of reader.onloadend.
finallyRelease(i) ==
  [dictation EXCEPT !.isProcessing = FALSE,
                    !.sessions[i] = Session("done", "released")]

\* reader.onloadend up to await transcribeAudio; a read that failed leaves
\* reader.result null and the handler ends in its catch and finally blocks.
onloadend(i, readOk) ==
  /\ i \in 1..Len(dictation.sessions)
  /\ dictation.sessions[i].pc = "reading"
  /\ dictation' = IF readOk
                  THEN [dictation EXCEPT !.sessions[i].pc = "transcribing"]
                  ELSE finallyRelease(i)
  /\ UNCHANGED input

\* reader.onloadend after transcribeAudio settled.
transcribed(i, response) ==
  /\ i \in 1..Len(dictation.sessions)
  /\ dictation.sessions[i].pc = "transcribing"
  /\ LET result == transcribeAudio(response) IN
     IF result.ok /\ result.text # <<>>
     THEN handleDictationResult(result.text)
     ELSE UNCHANGED input
  /\ dictation' = finallyRelease(i)

dictationFrame ==
  UNCHANGED <<messages, isLoading, loadingStep, aiHistory, stagedFiles,
              sends, started, clock, lastError, form>>

\* The composer's text and its dictation button.
DictationNext ==
  \/ \E t \in InputTexts :
       setInput(t) /\ UNCHANGED <<form, dictation>>
  \/ toggleRecording /\ dictationFrame
  \/ \E i \in 1..Len(dictation.sessions) :
       getUserMediaResolves(i) /\ dictationFrame
  \/ \E i \in 1..Len(dictation.sessions) :
       getUserMediaRejects(i) /\ dictationFrame
  \/ \E i \in 1..Len(dictation.sessions) : onstop(i) /\ dictationFrame
  \/ \E i \in 1..Len(dictation.sessions), readOk \in BOOLEAN :
       onloadend(i, readOk) /\ dictationFrame
  \/ \E i \in 1..Len(dictation.sessions), response \in AudioResponses :
       transcribed(i, response) /\ dictationFrame

DictationSpec == Init /\ [][DictationNext]_vars

----------------------------------------------------------------------------

\* The App component with the form and the dictation control left alone: a
\* form submission is any of FormInputs.
Next ==
  \/ Tick /\ UNCHANGED <<form, dictation>>
  \/ \E t \in InputTexts : setInput(t) /\ UNCHANGED <<form, dictation>>
  \/ \E f \in StageableFiles :
       handleGlobalDrop(<<f>>) /\ UNCHANGED <<form, dictation>>
  \/ \E k \in 1..Len(stagedFiles) :
       removeStagedFile(k) /\ UNCHANGED <<form, dictation>>
  \/ resetChat /\ UNCHANGED <<form, dictation>>
  \/ clickSubmit /\ UNCHANGED <<form, dictation>>
  \/ \E key \in {"Enter", "a"}, shiftKey \in BOOLEAN :
       onKeyDown(key, shiftKey) /\ UNCHANGED <<form, dictation>>
  \/ \E in \in FormInputs, useTurbo \in BOOLEAN :
       clickFormButton(in, useTurbo) /\ UNCHANGED <<form, dictation>>
  \/ \E i \in 1..Len(sends) : encodeDone(i) /\ UNCHANGED <<form, dictation>>
  \/ \E i \in 1..Len(sends) : encodeFail(i) /\ UNCHANGED <<form, dictation>>
  \/ \E i \in 1..Len(sends), response \in Responses :
       replyArrives(i, response) /\ UNCHANGED <<form, dictation>>

Spec == Init /\ [][Next]_vars

\* The composer and the adapter alone: texts with links are typed and sent,
\* and replies come with grounding metadata.
AdapterNext ==
  \/ \E t \in UrlTexts : setInput(t) /\ UNCHANGED <<form, dictation>>
  \/ \E f \in StageableFiles :
       handleGlobalDrop(<<f>>) /\ UNCHANGED <<form, dictation>>
  \/ clickSubmit /\ UNCHANGED <<form, dictation>>
  \/ \E i \in 1..Len(sends) : encodeDone(i) /\ UNCHANGED <<form, dictation>>
  \/ \E i \in 1..Len(sends), response \in LinkResponses :
       replyArrives(i, response) /\ UNCHANGED <<form, dictation>>

AdapterSpec == Init /\ [][AdapterNext]_vars

\* <input type="file" multiple onChange=...>: the file picker of the composer
fileInputChange(newFiles) ==
  /\ Len(newFiles) > 0
  /\ Len(stagedFiles) + Len(newFiles) <= MaxStaged
  /\ stagedFiles' = stagedFiles \o newFiles
  /\ UNCHANGED <<messages, input, isLoading, loadingStep, aiHistory, sends,
                 started, clock, lastError>>

\* The button that discards the staged batch: onClick={() => setStagedFiles([])}
discardBatch ==
  /\ Len(stagedFiles) > 0
  /\ stagedFiles' = <<>>
  /\ UNCHANGED <<messages, input, isLoading, loadingStep, aiHistory, sends,
                 started, clock, lastError>>

StagingResponses == {Rejected, Resolved(<<Value(ReplyComplete)>>, None, None)}

\* The composer with its staged files: files are dropped, picked and removed
\* while sends encode their files.
StagingNext ==
  \/ \E t \in InputTexts : setInput(t) /\ UNCHANGED <<form, dictation>>
  \/ \E f \in Files : handleGlobalDrop(<<f>>) /\ UNCHANGED <<form, dictation>>
  \/ \E f \in Files : fileInputChange(<<f>>) /\ UNCHANGED <<form, dictation>>
  \/ \E k \in 1..Len(stagedFiles) :
       removeStagedFile(k) /\ UNCHANGED <<form, dictation>>
  \/ discardBatch /\ UNCHANGED <<form, dictation>>
  \/ resetChat /\ UNCHANGED <<form, dictation>>
  \/ clickSubmit /\ UNCHANGED <<form, dictation>>
  \/ \E i \in 1..Len(sends) : encodeDone(i) /\ UNCHANGED <<form, dictation>>
  \/ \E i \in 1..Len(sends), response \in StagingResponses :
       replyArrives(i, response) /\ UNCHANGED <<form, dictation>>

StagingSpec == Init /\ [][StagingNext]_vars

----------------------------------------------------------------------------
(* Properties *)

IsFallback(m) ==
  /\ m.role = "ai"
  /\ m.content = Some(FallbackText)
  /\ m.uiFields = None /\ m.analysis = None /\ m.final_output = None
  /\ m.groundingLinks = None

SchemaError == "Model failed to adhere to the requested response schema."

\* C1: a send whose inference call returns a parsed reply grows the
\* conversation history by exactly two entries, a user turn followed by a
\* model turn; a send whose call fails (network error, empty reply text,
\* unparsable JSON) or whose files cannot be encoded leaves the history as it
\* was.
HistoryPairing ==
  [][/\ \A i \in 1..Len(sends), r \in Responses :
          replyArrives(i, r) =>
            IF ParseResponse(r).ok
            THEN /\ Len(aiHistory') = Len(aiHistory) + 2
                 /\ SubSeq(aiHistory', 1, Len(aiHistory)) = aiHistory
                 /\ aiHistory'[Len(aiHistory) + 1].role = "user"
                 /\ aiHistory'[Len(aiHistory) + 2].role = "model"
            ELSE aiHistory' = aiHistory
     /\ \A i \in 1..Len(sends) : encodeFail(i) => aiHistory' = aiHistory
    ]_vars

\* A reply was committed as a pair, and a later call of the same conversation
\* failed without touching the history.
HistoryPairingWitness ==
  /\ Len(aiHistory) = 2
  /\ aiHistory[1].role = "user" /\ aiHistory[2].role = "model"
  /\ Len(messages) = 5
  /\ IsFallback(messages[5])
  /\ sends = <<>>

\* C3: for a reply with status COLLECTING and a fields list, the assistant
\* Message created by handleSend carries exactly that list and neither
\* analysis nor final_output; for a reply with status COMPLETE it carries the
\* reply's analysis and final_output (each if present) and no field
\* descriptors, even when the reply has a fields list.
StatusToUi ==
  [][\A i \in 1..Len(sends), r \in Responses :
       (replyArrives(i, r) /\ ParseResponse(r).ok) =>
         LET reply == ParseResponse(r).value
             msg == Last(messages')
         IN /\ Len(messages') = Len(messages) + 1
            /\ msg.role = "ai"
            /\ (reply.status = Some("COLLECTING") /\ reply.fields # None) =>
                 /\ msg.uiFields = reply.fields
                 /\ msg.analysis = None
                 /\ msg.final_output = None
            /\ reply.status = Some("COMPLETE") =>
                 /\ msg.uiFields = None
                 /\ msg.analysis = reply.analysis
                 /\ msg.final_output = reply.final_output
    ]_vars

\* The log holds the Message of a COLLECTING reply (which also carried an
\* analysis) followed later by the Message of a COMPLETE reply (which also
\* carried a fields list and no final_output).
StatusToUiWitness ==
  \E j, k \in 1..Len(messages) :
    /\ j < k
    /\ messages[j].content = ReplyCollecting.message
    /\ messages[j].uiFields = Some(<<FieldGoal, FieldDoc>>)
    /\ messages[j].analysis = None
    /\ messages[k].content = ReplyComplete.message
    /\ messages[k].uiFields = None
    /\ messages[k].analysis = ReplyComplete.analysis
    /\ messages[k].final_output = None

\* C4: when the reply text is not valid JSON after code-fence stripping,
\* sendMessageToGemini fails, the conversation history is unchanged and the
\* only Message created is the generic fallback, which carries no field
\* descriptors, analysis or final_output.
MalformedJsonFails ==
  [][\A i \in 1..Len(sends), r \in Responses :
       (/\ replyArrives(i, r)
        /\ r.kind = "resolve" /\ r.text # <<>>
        /\ ~JsonParses(cleanJsonOutput(r.text))) =>
         /\ ~ParseResponse(r).ok
         /\ aiHistory' = aiHistory
         /\ Len(messages') = Len(messages) + 1
         /\ SubSeq(messages', 1, Len(messages)) = messages
         /\ IsFallback(Last(messages'))
         /\ lastError' = SchemaError
    ]_vars

\* A schema error was reported in a conversation whose history already held
\* a pair.
MalformedJsonWitness ==
  /\ lastError = SchemaError
  /\ IsFallback(Last(messages))
  /\ Len(aiHistory) = 2
  /\ sends = <<>>

\* The invocations whose call of sendMessageToGemini is outstanding.
InFlight == {i \in 1..Len(sends) : sends[i].pc = "awaiting"}

\* C2: at most one inference request is in flight at any time: a send issued
\* while isLoading is true is a no-op, so while isLoading is true no further
\* call of sendMessageToGemini is issued.
OneRequestAtATime ==
  [][isLoading => Cardinality(InFlight') <= Cardinality(InFlight)]_vars

\* C5: a parsed reply whose status is neither COLLECTING nor COMPLETE (or is
\* absent) is handled like a schema violation: the fallback Message is shown
\* and the conversation history is not updated.
FailClosedOnStatus ==
  [][\A i \in 1..Len(sends), r \in Responses :
       (/\ replyArrives(i, r)
        /\ ParseResponse(r).ok
        /\ ParseResponse(r).value.status \notin
             {Some("COLLECTING"), Some("COMPLETE")}) =>
         /\ aiHistory' = aiHistory
         /\ IsFallback(Last(messages'))
    ]_vars

\* C6: every failure in the pipeline started by handleSend, a failure to
\* encode an attached file included, ends that invocation with exactly one
\* fallback Message appended to the log.
EveryFailureCaught ==
  [][/\ \A i \in 1..Len(sends) :
          encodeFail(i) => messages' = Append(messages, FallbackMessage(clock))
     /\ \A i \in 1..Len(sends), r \in Responses :
          (replyArrives(i, r) /\ ~ParseResponse(r).ok) =>
            messages' = Append(messages, FallbackMessage(clock))
    ]_vars

\* C7: a failed send never removes or rolls back a Message: when the call of
\* a send fails, every Message of the log, the user's Message of that send
\* included, keeps its position, content and attachments, and the fallback
\* Message is appended after them.
FailureKeepsUserMessage ==
  [][\A i \in 1..Len(sends), r \in Responses :
       (replyArrives(i, r) /\ ~ParseResponse(r).ok) =>
         /\ Len(messages') = Len(messages) + 1
         /\ \A k \in 1..Len(messages) : messages'[k] = messages[k]
         /\ IsFallback(Last(messages'))
         /\ \A k \in 1..Len(messages) :
              messages[k] = sends[i].newUserMsg[1] =>
                messages'[k] = sends[i].newUserMsg[1]
    ]_vars

\* A user Message with an attachment is directly followed by the fallback
\* Message of its failed call.
FailureKeepsUserMessageWitness ==
  \E k \in 1..(Len(messages) - 1) :
    /\ messages[k].role = "user"
    /\ messages[k].content = Some(<<"hi">>)
    /\ messages[k].attachments = Some(<<processFile(FileA)>>)
    /\ IsFallback(messages[k + 1])
    /\ lastError # "none"

\* C8: whenever the call of a send settles, with a reply or with any failure,
\* isLoading is set back to false and the loading text to its default; and,
\* every outstanding call eventually settling, isLoading = true leads to
\* isLoading = false.
LoadingCleared ==
  /\ [][\A i \in 1..Len(sends), r \in Responses :
          replyArrives(i, r) =>
            (isLoading' = FALSE /\ loadingStep' = DefaultLoadingStep)]_vars
  /\ (isLoading ~> ~isLoading)

\* The loading flag is clear after a call failed while the log shows the send.
LoadingClearedWitness ==
  /\ ~isLoading
  /\ loadingStep = DefaultLoadingStep
  /\ Len(messages) = 3
  /\ messages[2].role = "user"
  /\ IsFallback(messages[3])
  /\ sends = <<>>

\* Every outstanding inference call eventually completes or fails.
FairSpec ==
  Spec /\ WF_vars(\E i \in 1..Len(sends), response \in Responses :
                    replyArrives(i, response) /\ UNCHANGED <<form, dictation>>)

SeedApp ==
  [messages |-> <<SeedMessage>>, input |-> <<>>, isLoading |-> FALSE,
   loadingStep |-> DefaultLoadingStep, aiHistory |-> <<>>,
   stagedFiles |-> <<>>]

\* C9: with no request in flight, resetChat yields a log holding only the
\* seed Message, an empty history, no staged files, empty input and
\* isLoading = false, and resetting that state again changes nothing.
ResetIdempotent ==
  [][(resetChat /\ sends = <<>>) =>
       (App' = SeedApp /\ AfterReset(App') = App')]_vars

\* The seed state, reached again by a reset after a call had failed.
ResetIdempotentWitness ==
  /\ App = SeedApp
  /\ sends = <<>>
  /\ lastError # "none"

\* C10: the history argument of every inference call is the conversation
\* history as it is when the call is issued.
HistoryArgumentCurrent ==
  [][\A i \in 1..Len(sends') :
       (/\ Len(sends') >= Len(sends)
        /\ sends'[i].pc = "awaiting"
        /\ (i > Len(sends) \/ sends[i].pc = "encoding")) =>
         LET contents == sends'[i].req[1].contents IN
         SubSeq(contents, 1, Len(contents) - 1) = aiHistory'
    ]_vars

\* The web citations among grounding chunks, in the order returned.
RECURSIVE Citations(_)
Citations(chunks) ==
  IF chunks = <<>> THEN <<>>
  ELSE (IF Head(chunks).web # None THEN <<Head(chunks).web[1]>> ELSE <<>>)
       \o Citations(Tail(chunks))

\* What a response gives the normalisation to work on: the list of the
\* reply's own JSON, the web citations and the retrieved URLs.
OwnLinks(r) ==
  LET json == JsonParse(cleanJsonOutput(r.text)) IN
  IF json.grounding_links = None THEN <<>> ELSE json.grounding_links[1]
CitationsOf(r) ==
  IF r.groundingChunks = None THEN <<>> ELSE Citations(r.groundingChunks[1])
RetrievedOf(r) ==
  IF r.urlMetadata = None THEN <<>> ELSE r.urlMetadata[1]

\* links, from position offset + 1 on, are the search citations in order,
\* each with its title or the default, followed by the retrieved URLs in
\* order, and nothing else.
CitationsThenUrls(links, offset, r) ==
  LET cites == CitationsOf(r)
      urls == RetrievedOf(r)
  IN /\ Len(links) = offset + Len(cites) + Len(urls)
     /\ \A k \in 1..Len(cites) :
          /\ links[offset + k].uri = cites[k].uri
          /\ links[offset + k].title =
               IF cites[k].title \in {None, Some("")}
               THEN "External Source" ELSE cites[k].title[1]
     /\ \A k \in 1..Len(urls) :
          /\ links[offset + Len(cites) + k].uri = urls[k]
          /\ links[offset + Len(cites) + k].title = "Retrieved Page Context"

\* C11 as stated: the grounding_links of the reply returned by
\* sendMessageToGemini is the list of search citations (title defaulting to
\* "External Source") in the order returned, followed by the URL-fetch
\* results (title "Retrieved Page Context") in the order returned, with no
\* deduplication.
GroundingLinksAreCitations ==
  [][\A i \in 1..Len(sends), r \in LinkResponses :
       (replyArrives(i, r) /\ ParseResponse(r).ok) =>
         CitationsThenUrls(ParseResponse(r).value.grounding_links[1], 0, r)
    ]_vars

\* C11, amended: the grounding_links of the reply returned by
\* sendMessageToGemini is the list the reply's own JSON carried (empty when
\* it carried none), followed by the search citations in the order returned
\* (title defaulting to "External Source"), followed by the URL-fetch
\* results in the order returned (title "Retrieved Page Context"), with no
\* deduplication; the assistant Message shows exactly that list.
GroundingLinksNormalised ==
  [][\A i \in 1..Len(sends), r \in LinkResponses :
       (replyArrives(i, r) /\ ParseResponse(r).ok) =>
         LET links == ParseResponse(r).value.grounding_links[1]
             own == OwnLinks(r)
         IN /\ Len(links) >= Len(own)
            /\ SubSeq(links, 1, Len(own)) = own
            /\ CitationsThenUrls(links, Len(own), r)
            /\ Last(messages').groundingLinks = Some(links)
    ]_vars

\* The log shows a reply with citations a, b and retrieved URL c, and one
\* whose citation a came twice, once with an empty title, next to the
\* retrieved URL a.
GroundingLinksWitness ==
  \E j, k \in 1..Len(messages) :
    /\ messages[j].groundingLinks =
         Some(<<Link("a", "External Source"), Link("b", "External Source"),
                Link("c", "Retrieved Page Context")>>)
    /\ messages[k].groundingLinks =
         Some(<<Link("a", "External Source"), Link("a", "A"),
                Link("a", "Retrieved Page Context")>>)

\* The schemes a text may name.
Schemes == {"http", "https", "ftp"}

\* The text has a scheme name (one of accepted), the separator and then a
\* character that is not whitespace.
HasSchemeUrl(text, accepted) ==
  \E k \in 1..Len(text) :
    /\ text[k] \in accepted
    /\ k + 2 <= Len(text)
    /\ text[k + 1] = "://"
    /\ text[k + 2] \notin WS

\* The requests of the inference calls that are outstanding.
Requests == {sends[i].req[1] : i \in InFlight}

ToolsOf(req) == {req.tools[k] : k \in 1..Len(req.tools)}

\* The text handed to the adapter with a request: the request's last turn
\* carries it as its text part, if it has one.
TextOf(req) ==
  LET parts == Last(req.contents).parts IN
  IF parts # <<>> /\ parts[1].text # None THEN parts[1].text[1] ELSE <<>>

\* C15 as stated: every inference call enables web-search grounding, and
\* enables URL-fetch grounding if and only if the input text contains
\* scheme:// followed by a non-whitespace character, for any scheme.
UrlFetchForAnyScheme ==
  \A req \in Requests :
    /\ "googleSearch" \in ToolsOf(req)
    /\ "urlContext" \in ToolsOf(req) <=> HasSchemeUrl(TextOf(req), Schemes)

\* C15, amended: every inference call enables web-search grounding, and
\* enables URL-fetch grounding if and only if the input text contains
\* http:// or https:// followed by a non-whitespace character; an input
\* with no text never enables URL-fetch.
UrlFetchForHttp ==
  \A req \in Requests :
    /\ ToolsOf(req) \subseteq {"googleSearch", "urlContext"}
    /\ "googleSearch" \in ToolsOf(req)
    /\ "urlContext" \in ToolsOf(req) <=>
         HasSchemeUrl(TextOf(req), {"http", "https"})
    /\ TextOf(req) = <<>> => "urlContext" \notin ToolsOf(req)

\* Two calls are outstanding: one for a text with an https link, with both
\* tools, and one for a file without text, with web search only.
UrlFetchWitness ==
  \E a, b \in Requests :
    /\ HasSchemeUrl(TextOf(a), {"https"})
    /\ a.tools = <<"googleSearch", "urlContext">>
    /\ TextOf(b) = <<>>
    /\ Len(Last(b.contents).parts) = 1
    /\ b.tools = <<"googleSearch">>

\* The value a descriptor's field shows.
ValueOf(d) == Get(form.formData, d.id)

\* The descriptor ids whose current value is non-empty.
FilledIds ==
  {fields[k].id : k \in {j \in 1..Len(fields) : Truthy(ValueOf(fields[j]))}}

\* C12: for a descriptor list of N >= 1 descriptors and after any sequence
\* of field edits, the percentage shown by GenerativeForm is round(100 * k /
\* N), the integer nearest to 100 * k / N with halves rounded up, k being the
\* number of descriptor ids whose current value is non-empty; it is an
\* integer in 0..100, and 33 for 3 descriptors with 1 filled.
ProgressIsPercentage ==
  (formShown /\ Len(fields) >= 1) =>
    LET N == Len(fields)
        k == Cardinality(FilledIds)
    IN /\ progress \in 0..100
       /\ 2 * N * progress - 200 * k <= N
       /\ 200 * k - 2 * N * progress < N
       /\ (N = 3 /\ k = 1) => progress = 33

\* What the double arithmetic of progress does keep: the percentage is an
\* integer in 0..100 that differs from 100 * k / N by at most 1/2.  Where
\* 100 * k / N lies halfway between two integers it goes either way: 1 of 8
\* gives 13 and 23 of 40 gives 57.
ProgressIsNearest ==
  (formShown /\ Len(fields) >= 1) =>
    LET N == Len(fields)
        k == Cardinality(FilledIds)
    IN /\ progress \in 0..100
       /\ 2 * N * progress - 200 * k <= N
       /\ 200 * k - 2 * N * progress <= N
       /\ (N = 3 /\ k = 1) => progress = 33
       /\ (N = 8 /\ k = 1) => progress = 13
       /\ (N = 40 /\ k = 23) => progress = 57

\* 40 descriptors of which 23 are filled, after a file was attached to the
\* first and removed and a text was typed into the second and cleared: 57 is
\* shown, where 100 * 23 / 40 is 57.5.
ProgressWitness ==
  /\ formShown
  /\ Len(fields) = 40
  /\ Cardinality(FilledIds) = 23
  /\ Get(form.formData, "1") = JsNull
  /\ HasKey(form.fileData, "1")
  /\ Get(form.formData, "2") = Str(<<>>)
  /\ progress = 57

\* The files bound to the descriptors, in descriptor order: for each file
\* descriptor whose field shows a file, that file.
RECURSIVE BoundFiles(_)
BoundFiles(ds) ==
  IF ds = <<>> THEN <<>>
  ELSE (IF Head(ds).type = "file" /\ Truthy(ValueOf(Head(ds)))
        THEN <<Get(form.fileData, Head(ds).id)>> ELSE <<>>)
       \o BoundFiles(Tail(ds))

\* C13: the file list that a form submission hands to the send pipeline, and
\* that ends up as the attachments of the outbound turn, is exactly the files
\* bound to individual descriptors in descriptor order followed by the extra
\* files in attachment order, and contains no other files.
FormFilesInDescriptorOrder ==
  [][\A useTurbo \in BOOLEAN :
       (formShown /\ handleSubmit(useTurbo) /\ started' = started + 1) =>
         LET expected == BoundFiles(fields) \o form.additionalFiles
             s == Last(sends')
         IN /\ s.allFiles = expected
            /\ s.pc = "awaiting" =>
                 /\ s.newUserMsg[1].attachments =
                      Some([k \in 1..Len(expected) |->
                              processFile(expected[k])])
                 /\ Len(Last(s.req[1].contents).parts) = 1 + Len(expected)
    ]_vars

\* C14: a form submission with 'fast' issues its inference call with
\* gemini-3-flash-preview, one with 'deep' issues it with
\* gemini-3-pro-preview, and every send from the main text input, the first
\* turn included, uses gemini-3-flash-preview; the request carries the
\* identifier the send was started with, whatever replies came before.
ModelIsUserChoice ==
  [][/\ \A in \in FormInputs, useTurbo \in BOOLEAN :
          (clickFormButton(in, useTurbo) /\ started' = started + 1) =>
            Last(sends').modelName =
              IF useTurbo THEN <<"gemini-3-", "pro", "-preview">>
              ELSE <<"gemini-3-", "flash", "-preview">>
     /\ ((clickSubmit \/ onKeyDown("Enter", FALSE))
         /\ started' = started + 1) =>
          Last(sends').modelName = <<"gemini-3-", "flash", "-preview">>
     /\ \A i \in 1..Len(sends') :
          sends'[i].pc = "awaiting" =>
            sends'[i].req[1].model = sends'[i].modelName
    ]_vars

\* After a first turn sent from the text input with the low-latency
\* identifier, a call of a form submission is outstanding with the
\* high-reasoning identifier.
ModelIsUserChoiceWitness ==
  /\ Len(aiHistory) = 2
  /\ \E i \in InFlight :
       /\ sends[i].req[1].model = ProModel
       /\ sends[i].req[1].thinkingLevel = "HIGH"
       /\ sends[i].loadingText = "Thinking and Analyzing..."

\* C16: a form is rendered for a Message only while that Message is the
\* last entry of the log and carries field descriptors: at most one form is
\* rendered at any time, and when a newer Message is appended the form of
\* the earlier Message is no longer rendered while the Message stays in the
\* log as it was.
FormOnlyForLast ==
  [][/\ Cardinality(RenderedForms') <= 1
     /\ \A k \in RenderedForms' :
          k = Len(messages') /\ messages'[k].uiFields # None
     /\ (/\ Len(messages') > Len(messages)
         /\ SubSeq(messages', 1, Len(messages)) = messages) =>
          \A k \in RenderedForms :
            k \notin RenderedForms' /\ messages'[k] = messages[k]
    ]_vars

\* The log holds two Messages with field descriptors; the form of the later
\* one is rendered and the form of the earlier one is not.
FormOnlyForLastWitness ==
  /\ Len(messages) = 5
  /\ messages[3].uiFields # None
  /\ messages[5].uiFields # None
  /\ RenderedForms = {5}

IsPrefix(s, t) == Len(s) <= Len(t) /\ SubSeq(t, 1, Len(s)) = s

\* C17: exactly one user Message is created per user submission and at most
\* one assistant Message per completed model reply; Messages already in the
\* log are never modified or removed by a later send, reply or failure, only
\* by a full reset.
OneMessagePerSubmission ==
  [][/\ resetChat \/ IsPrefix(messages, messages')
     /\ Len(messages') <= Len(messages) + 1
     /\ (started' = started + 1 /\ Last(sends').pc = "awaiting") =>
          /\ Len(messages') = Len(messages) + 1
          /\ Last(messages').role = "user"
     /\ \A i \in 1..Len(sends) :
          (encodeDone(i) \/ encodeFail(i)) =>
            /\ Len(messages') = Len(messages) + 1
            /\ Last(messages').role = "user"
            /\ Last(messages').content = Some(sends[i].text)
     /\ \A i \in 1..Len(sends), r \in Responses :
          replyArrives(i, r) =>
            /\ Len(messages') = Len(messages) + 1
            /\ Last(messages').role = "ai"
    ]_vars

\* C18: in every reachable state all Messages of the log have pairwise
\* distinct ids, for any timing of submissions, replies and failures.
UniqueIds ==
  \A j, k \in 1..Len(messages) : j # k => messages[j].id # messages[k].id

\* The sessions that were started and have not ended.
ActiveSessions ==
  {i \in 1..Len(dictation.sessions) :
     dictation.sessions[i].pc \notin {"done", "denied"}}

LiveStreams ==
  {i \in 1..Len(dictation.sessions) : dictation.sessions[i].stream = "live"}

\* C19: only one recording session is active per DictationButton: no second
\* session is started on the control while one is being acquired, recording
\* or processing, so the control never holds two microphone streams.
OneSessionPerControl ==
  /\ Cardinality(ActiveSessions) <= 1
  /\ Cardinality(LiveStreams) <= 1

\* The control shows neither recording nor processing and nothing of a
\* session is pending.
DictationAtRest ==
  /\ ~dictation.isRecording
  /\ ~dictation.isProcessing
  /\ \A i \in 1..Len(dictation.sessions) :
       dictation.sessions[i].pc \in {"recording", "done", "denied"}

\* C20: every microphone stream acquired by startRecording is released once
\* recording has stopped, on every exit path: when the control is at rest
\* again, no stream is live.
MicrophoneReleased ==
  DictationAtRest => LiveStreams = {}

\* What the control shows: its two flags.
ControlState(d) ==
  IF d.isRecording /\ d.isProcessing THEN "recording+processing"
  ELSE IF d.isRecording THEN "recording"
  ELSE IF d.isProcessing THEN "processing"
  ELSE "idle"

CaptureTransitions ==
  {<<"idle", "recording">>, <<"recording", "processing">>,
   <<"processing", "idle">>, <<"recording", "idle">>}

\* C21: the capture control follows idle -> recording -> processing -> idle,
\* with recording -> idle also possible: no other transition occurs, and the
\* control is never recording and processing at once.
CaptureStateMachine ==
  [][ControlState(dictation') # ControlState(dictation) =>
       <<ControlState(dictation), ControlState(dictation')>>
         \in CaptureTransitions]_vars

\* C22: when transcribeAudio fails or returns an empty text, the control
\* returns to idle and no text is inserted into the input.
TranscriptionFailureLocal ==
  [][\A i \in 1..Len(dictation.sessions), response \in AudioResponses :
       (/\ transcribed(i, response)
        /\ (~transcribeAudio(response).ok
              \/ transcribeAudio(response).text = <<>>)) =>
         /\ input' = input
         /\ ControlState(dictation') = "idle"
    ]_vars

\* C23: in every reachable state the conversation history has even length
\* and alternates user, model, user, model, ... starting with a user turn,
\* and every step that changes the history either empties it or appends the
\* user turn of one send directly followed by the model turn of that send.
HistoryAlternates ==
  /\ [](/\ Len(aiHistory) % 2 = 0
        /\ \A k \in 1..Len(aiHistory) :
             aiHistory[k].role = IF k % 2 = 1 THEN "user" ELSE "model")
  /\ [][aiHistory' # aiHistory =>
          \/ aiHistory' = <<>>
          \/ \E i \in 1..Len(sends), r \in Responses :
               /\ replyArrives(i, r)
               /\ ParseResponse(r).ok
               /\ aiHistory' =
                    aiHistory \o <<userTurnOf(sends[i]),
                                   modelTurnOf(ParseResponse(r).value)>>
     ]_vars

\* Two sends overlapped (both user Messages precede both replies) and both
\* calls returned a reply.
HistoryAlternatesWitness ==
  /\ Len(aiHistory) = 4
  /\ Len(messages) = 5
  /\ messages[2].role = "user" /\ messages[3].role = "user"
  /\ sends = <<>>

\* C27: the user turn that handleSend appends to the conversation history
\* after a successful call is the outbound turn that sendMessageToGemini
\* built and sent for that call.
UserTurnIsOutboundTurn ==
  [][\A i \in 1..Len(sends), r \in Responses :
       (replyArrives(i, r) /\ ParseResponse(r).ok) =>
         aiHistory'[Len(aiHistory) + 1] = Last(sends[i].req[1].contents)
    ]_vars

\* C24: in every reachable state isLoading is true if and only if an
\* inference call issued by handleSend has not yet completed or failed.
LoadingTracksPending ==
  isLoading <=> InFlight # {}

\* The user Message of an outstanding call is no longer in the log: the log
\* was reset after the send was issued.
IssuedBeforeReset(i) ==
  \A k \in 1..Len(messages) : messages[k] # sends[i].newUserMsg[1]

\* C25: after resetChat the log and the history contain nothing of a send
\* issued before the reset, even when the call of that send completes or
\* fails after the reset: the settling of such a call changes neither the
\* log nor the history.
ResetDiscards ==
  [][\A i \in 1..Len(sends), r \in Responses :
       (replyArrives(i, r) /\ IssuedBeforeReset(i)) =>
         (messages' = messages /\ aiHistory' = aiHistory)
    ]_vars

\* C30: handleSend called with a text that is empty or only whitespace, no
\* explicit file and no staged file issues no inference call and leaves the
\* log, the history, the input, the staged files and the loading flag
\* unchanged; with at least one staged file the send proceeds with the
\* blank text.
EmptySubmissionNoOp ==
  [][onKeyDown("Enter", FALSE) =>
       IF Trim(input) = <<>> /\ stagedFiles = <<>>
       THEN UNCHANGED <<messages, aiHistory, input, stagedFiles, isLoading,
                        sends, started>>
       ELSE /\ started' = started + 1
            /\ Len(sends') = Len(sends) + 1
            /\ Last(sends').text = input
            /\ (stagedFiles # <<>>) =>
                 (Last(sends').pc = "encoding"
                    /\ Last(sends').allFiles = stagedFiles)
    ]_vars

\* The log shows a send of a blank text with a file, whose call is in flight.
EmptySubmissionWitness ==
  \E i \in InFlight :
    /\ Trim(sends[i].text) = <<>>
    /\ sends[i].allFiles = <<FileA>>
    /\ Last(messages) = sends[i].newUserMsg[1]
    /\ Last(messages).attachments = Some(<<processFile(FileA)>>)

\* The message synthesized for a form in which nothing was entered.
EmptyFormMessage ==
  <<"Here is the user provided context", ":", "\n", "\n", "\n", "Details:",
    "\n">>

\* C26: the completion indicator is not a submission gate: whatever the
\* values of the fields, the notes and the file lists are, clicking fast or
\* deep on the form starts a send.
SubmitNotGated ==
  (formShown /\ started < MaxSends) =>
    \A useTurbo \in BOOLEAN :
      ENABLED (handleSubmit(useTurbo) /\ started' = started + 1)

\* A form with a required descriptor was submitted with nothing entered, and
\* the call of that send is in flight.
SubmitNotGatedWitness ==
  \E i \in InFlight :
    /\ sends[i].text = EmptyFormMessage
    /\ sends[i].allFiles = <<>>
    /\ sends[i].loadingText = "Thinking and Analyzing..."
    /\ \E k \in 1..Len(messages) :
         /\ messages[k].uiFields # None
         /\ \E j \in 1..Len(messages[k].uiFields[1]) :
              messages[k].uiFields[1][j].required

\* C29: the descriptor-bound files of a form submission are the files bound
\* to a descriptor at the moment of submission: a file that was attached to
\* a file field and then removed is not submitted, and of a replaced file
\* only the latest is.
SubmittedFilesAreBound ==
  [][\A useTurbo \in BOOLEAN :
       (formShown /\ handleSubmit(useTurbo) /\ started' = started + 1) =>
         LET submitted == Last(sends').allFiles
             bound == BoundFiles(fields)
             n == Len(submitted) - Len(form.additionalFiles)
         IN {submitted[k] : k \in 1..n} = {bound[k] : k \in 1..Len(bound)}
    ]_vars

\* C28: no staged file is silently lost: a file that leaves the staged list
\* is removed by the user (remove, discard batch, reset) or is among the attachments
\* of the user Message that the same step appends to the log.
NoStagedFileLost ==
  [][\A k \in 1..Len(stagedFiles) :
       (\A j \in 1..Len(stagedFiles') : stagedFiles'[j] # stagedFiles[k]) =>
         \/ resetChat
         \/ discardBatch
         \/ \E j \in 1..Len(stagedFiles) : removeStagedFile(j)
         \/ /\ Len(messages') = Len(messages) + 1
            /\ Last(messages').role = "user"
            /\ \E j \in 1..Len(Last(messages').attachments[1]) :
                 Last(messages').attachments[1][j] = processFile(stagedFiles[k])
    ]_vars

====
